---- MODULE Spec2Model ----
(***************************************************************************)
(* Dritchwear storefront: the Payment Bridge (components/PaystackPayment)  *)
(* and the admin order-detail view (OrderDetailsModal: status updates,     *)
(* refund, invoice issuance) as state machines over the backing store.     *)
(***************************************************************************)
EXTENDS Integers, Sequences, FiniteSets, TLC

(***************************************************************************)
(* Bounds of the model.                                                    *)
(***************************************************************************)
\* provider handlers one presentation may set up
MaxAttempts == 2
\* messages in flight from the page to the host
MaxMessages == 2
\* host callbacks counted per presentation
MaxCalls == 3
\* messages posted by something other than the bridge's own script
MaxForeign == 1

\* PaystackPayment.tsx:162
maxRetries == 3

\* the amounts (major units, two decimal places) a presentation is given:
\* 1, 1000, 1.10 and 19.99
Amounts ==
    {[units |-> 1, cents |-> 0], [units |-> 1000, cents |-> 0],
     [units |-> 1, cents |-> 10], [units |-> 19, cents |-> 99]}

VARIABLES
    \* ---- Payment Bridge: props and page environment
    amount,             \* prop `amount`
    PaystackPopDefined, \* whether inline.js loaded (typeof PaystackPop !== 'undefined')
    \* ---- Payment Bridge: page script state
    paymentInProgress,
    retryCount,
    dom,                \* loading / error elements and the pay button
    hideErrorTimers,    \* pending 2000 ms timers of the retry branch
    autoTriggerTimer,   \* the 1500 ms timer of the load listener is pending
    handler,            \* the provider handler of the current attempt
    attempts,           \* handlers set up so far
    \* ---- Payment Bridge: host side
    messages,           \* posted to ReactNativeWebView, not yet handled
    foreign,            \* messages posted by others so far
    onSuccessCalls,
    onCancelCalls,
    \* ---- backing store: the one order under view and what hangs off it
    orderKind,          \* "standard" (order.items present) or "custom"
    order_status,       \* orders.order_status
    payment_status,     \* orders.payment_status
    status,             \* custom_requests.status
    invoice_sent,       \* custom_requests.invoice_sent
    currency,           \* the order row's currency ("" when absent)
    preferred_currency, \* profiles.preferred_currency ("" when absent)
    wallet_balance,     \* profiles.wallet_balance of the order's owner
    transactions,       \* rows of transactions
    invoices,           \* rows of invoices
    notifications,      \* rows of notifications
    joins,              \* which joins the parent screen's query carries
    \* ---- OrderDetailsModal, one per signed-in session
    isAdmin,            \* useAuth().isAdmin of each session
    view,               \* the `order` prop: a copy of the store's rows
    showInvoiceModal,
    \* ---- history: the last handler run and the store calls it issued
    lastOp,
    \* ---- the customer's screens and the view's updating flag
    home,               \* HomeScreen: profile, loading and the effect's fetches
    walletHistory,      \* WalletHistoryScreen: user, loading, refreshing, fetches
    statusUpdate        \* per session: updating and the status update in flight

varsBridge == <<amount, PaystackPopDefined, paymentInProgress, retryCount, dom,
                hideErrorTimers, autoTriggerTimer, handler, attempts,
                messages, foreign, onSuccessCalls, onCancelCalls>>

varsOrders == <<orderKind, order_status, payment_status, status, invoice_sent,
                currency, preferred_currency, wallet_balance, transactions, invoices, notifications,
                joins, isAdmin, view, showInvoiceModal, lastOp>>

varsScreens == <<home, walletHistory, statusUpdate>>

vars == <<varsBridge, varsOrders, varsScreens>>

(***************************************************************************)
(* Payment Bridge                                                          *)
(***************************************************************************)
\* The prop `amount` is a JavaScript number: the binary64 value nearest to
\* the decimal n/100, n = hundredths(amount).  `amount * 100` is the exact
\* product rounded to binary64 again.  With n/100 in [2^p, 2^(p+1)) the
\* number is M * 2^-e, e = 52 - p, M = n * 2^e / 100 rounded to an integer,
\* so 100 * M differs from n * 2^e by delta = -r or 100 - r, where
\* r = (n * 2^e) % 100.  The product has 59 bits (spacing 64, in units of
\* 2^-e) when n/100 < 1.28 * 2^p, else 60 bits (spacing 128): it rounds away
\* from n exactly when the spacing is 64 and |delta| > 32.
hundredths(a) == a.units * 100 + a.cents

\* the least p >= from with n/100 < 2^(p+1), for n >= 100
RECURSIVE binade(_, _)
binade(n, from) == IF n < 200 * 2^from THEN from ELSE binade(n, from + 1)

\* 2^e % 100
RECURSIVE powMod100(_)
powMod100(e) == IF e = 0 THEN 1 ELSE (2 * powMod100(e - 1)) % 100

\* amount * 100 as JavaScript computes it: the integer it is nearest to and
\* how many binary64 steps away from that integer it lies
times100(a) ==
    LET n == hundredths(a)
        p == binade(n, 0)
        r == ((n % 100) * powMod100(52 - p)) % 100
        \* r = 50 cannot arise: n * 2^e is a multiple of 4
        delta == IF r = 0 THEN 0 ELSE IF r < 50 THEN 0 - r ELSE 100 - r
        spacing == IF n < 128 * 2^p \/ (n = 128 * 2^p /\ delta < 0)
                   THEN 64 ELSE 128
    IN  [nearest |-> n,
         ulps |-> IF spacing = 128 THEN 0
                  ELSE IF delta > 32 THEN 1
                  ELSE IF delta < 0 - 32 THEN 0 - 1
                  ELSE 0]

\* const amountInKobo = amount * 100
amountInKobo == times100(amount)

NoHandler == [state |-> "none", amount |-> [nearest |-> 0, ulps |-> 0],
              currency |-> "none"]

showLoading(d) ==
    [d EXCEPT !.loading = TRUE, !.error = FALSE, !.payDisabled = TRUE]

hideLoading(d) ==
    [d EXCEPT !.loading = FALSE, !.payDisabled = FALSE]

showError(d, message) ==
    hideLoading([d EXCEPT !.errorText = message, !.error = TRUE])

\* window.ReactNativeWebView.postMessage(JSON.stringify(data))
postMessage(data) == messages' = Append(messages, data)

InitBridge ==
    /\ amount \in Amounts
    /\ PaystackPopDefined \in BOOLEAN
    /\ paymentInProgress = FALSE
    /\ retryCount = 0
    /\ dom = [loading |-> FALSE, error |-> FALSE, errorText |-> "none",
              payDisabled |-> FALSE]
    /\ hideErrorTimers = 0
    /\ autoTriggerTimer = TRUE
    /\ handler = NoHandler
    /\ attempts = 0
    /\ messages = <<>>
    /\ foreign = 0
    /\ onSuccessCalls = 0
    /\ onCancelCalls = 0

\* function payWithPaystack(); setupThrows: PaystackPop.setup raises
payWithPaystack(setupThrows) ==
    IF paymentInProgress
    THEN UNCHANGED <<paymentInProgress, retryCount, dom, hideErrorTimers,
                     handler, attempts, messages>>
    ELSE IF ~PaystackPopDefined
    THEN /\ IF retryCount < maxRetries
            THEN /\ retryCount' = retryCount + 1
                 /\ dom' = showError(dom, "loading_try_again")
                 /\ hideErrorTimers' = hideErrorTimers + 1
            ELSE /\ dom' = showError(dom, "failed_to_load")
                 /\ UNCHANGED <<retryCount, hideErrorTimers>>
         /\ UNCHANGED <<paymentInProgress, handler, attempts, messages>>
    ELSE IF setupThrows
    THEN /\ paymentInProgress' = FALSE
         /\ dom' = showError(showLoading(dom), "setup_failed")
         /\ postMessage([type |-> "error"])
         /\ UNCHANGED <<retryCount, hideErrorTimers, handler, attempts>>
    ELSE /\ paymentInProgress' = TRUE
         /\ dom' = showLoading(dom)
         /\ handler' = [state |-> "setup", amount |-> amountInKobo,
                        currency |-> "NGN"]
         /\ attempts' = attempts + 1
         /\ UNCHANGED <<retryCount, hideErrorTimers, messages>>

\* the user taps "Pay with Paystack" (a disabled button takes no tap)
PressPay ==
    /\ UNCHANGED <<varsOrders, varsScreens>>
    /\ ~dom.payDisabled
    /\ attempts < MaxAttempts
    /\ Len(messages) < MaxMessages
    /\ \E setupThrows \in BOOLEAN : payWithPaystack(setupThrows)
    /\ UNCHANGED <<amount, PaystackPopDefined, autoTriggerTimer, foreign,
                   onSuccessCalls, onCancelCalls>>

\* the 1500 ms timer of the load listener
AutoTrigger ==
    /\ UNCHANGED <<varsOrders, varsScreens>>
    /\ autoTriggerTimer
    /\ autoTriggerTimer' = FALSE
    /\ Len(messages) < MaxMessages
    /\ IF ~paymentInProgress /\ PaystackPopDefined
       THEN \E setupThrows \in BOOLEAN : payWithPaystack(setupThrows)
       ELSE UNCHANGED <<paymentInProgress, retryCount, dom, hideErrorTimers,
                        handler, attempts, messages>>
    /\ UNCHANGED <<amount, PaystackPopDefined, foreign, onSuccessCalls,
                   onCancelCalls>>

\* the 2000 ms timer of the retry branch hides the error element
HideErrorTimer ==
    /\ UNCHANGED <<varsOrders, varsScreens>>
    /\ hideErrorTimers > 0
    /\ hideErrorTimers' = hideErrorTimers - 1
    /\ dom' = [dom EXCEPT !.error = FALSE]
    /\ UNCHANGED <<amount, PaystackPopDefined, paymentInProgress, retryCount,
                   autoTriggerTimer, handler, attempts, messages, foreign,
                   onSuccessCalls, onCancelCalls>>

\* the 100 ms timer after setup: handler.openIframe(), which may raise
OpenIframeTimer ==
    /\ UNCHANGED <<varsOrders, varsScreens>>
    /\ handler.state = "setup"
    /\ \E throws \in BOOLEAN :
          IF throws
          THEN /\ Len(messages) < MaxMessages
               /\ paymentInProgress' = FALSE
               /\ dom' = showError(dom, "open_failed")
               /\ postMessage([type |-> "error"])
               /\ handler' = [handler EXCEPT !.state = "closed"]
          ELSE /\ handler' = [handler EXCEPT !.state = "open"]
               /\ UNCHANGED <<paymentInProgress, dom, messages>>
    /\ UNCHANGED <<amount, PaystackPopDefined, retryCount, hideErrorTimers,
                   autoTriggerTimer, attempts, foreign, onSuccessCalls,
                   onCancelCalls>>

\* the provider's callback(response) of an open checkout
ProviderCallback ==
    /\ UNCHANGED <<varsOrders, varsScreens>>
    /\ handler.state = "open"
    /\ Len(messages) < MaxMessages
    /\ paymentInProgress' = FALSE
    /\ dom' = hideLoading(dom)
    /\ postMessage([type |-> "success"])
    /\ handler' = [handler EXCEPT !.state = "closed"]
    /\ UNCHANGED <<amount, PaystackPopDefined, retryCount, hideErrorTimers,
                   autoTriggerTimer, attempts, foreign, onSuccessCalls,
                   onCancelCalls>>

\* the provider's onClose() of an open checkout
ProviderOnClose ==
    /\ UNCHANGED <<varsOrders, varsScreens>>
    /\ handler.state = "open"
    /\ Len(messages) < MaxMessages
    /\ paymentInProgress' = FALSE
    /\ dom' = hideLoading(dom)
    /\ postMessage([type |-> "cancel"])
    /\ handler' = [handler EXCEPT !.state = "closed"]
    /\ UNCHANGED <<amount, PaystackPopDefined, retryCount, hideErrorTimers,
                   autoTriggerTimer, attempts, foreign, onSuccessCalls,
                   onCancelCalls>>

\* the Cancel button posting whatever the latch says
cancelPayment_NoLatch ==
    /\ UNCHANGED <<varsOrders, varsScreens>>
    /\ Len(messages) < MaxMessages
    /\ postMessage([type |-> "cancel"])
    /\ UNCHANGED <<amount, PaystackPopDefined, paymentInProgress, retryCount,
                   dom, hideErrorTimers, autoTriggerTimer, handler, attempts,
                   foreign, onSuccessCalls, onCancelCalls>>

\* function cancelPayment(), the Cancel button's onclick
cancelPayment ==
    /\ UNCHANGED <<varsOrders, varsScreens>>
    /\ IF paymentInProgress
       THEN UNCHANGED messages
       ELSE /\ Len(messages) < MaxMessages
            /\ postMessage([type |-> "cancel"])
    /\ UNCHANGED <<amount, PaystackPopDefined, paymentInProgress, retryCount,
                   dom, hideErrorTimers, autoTriggerTimer, handler, attempts,
                   foreign, onSuccessCalls, onCancelCalls>>

\* window 'error' listener
PageError ==
    /\ UNCHANGED <<varsOrders, varsScreens>>
    /\ ~paymentInProgress
    /\ dom' = showError(dom, "page_error")
    /\ UNCHANGED <<amount, PaystackPopDefined, paymentInProgress, retryCount,
                   hideErrorTimers, autoTriggerTimer, handler, attempts,
                   messages, foreign, onSuccessCalls, onCancelCalls>>

\* a message the bridge's script did not post: an unknown type, or data
\* that is not JSON
ForeignMessage ==
    /\ UNCHANGED <<varsOrders, varsScreens>>
    /\ foreign < MaxForeign
    /\ Len(messages) < MaxMessages
    /\ foreign' = foreign + 1
    /\ \E t \in {"unknown", "unparseable"} : postMessage([type |-> t])
    /\ UNCHANGED <<amount, PaystackPopDefined, paymentInProgress, retryCount,
                   dom, hideErrorTimers, autoTriggerTimer, handler, attempts,
                   onSuccessCalls, onCancelCalls>>

\* the error branch calling onSuccess
handleMessageCalls_ErrorIsSuccess(m) ==
    CASE m.type = "unparseable" -> "onCancel"
      [] m.type = "success"     -> "onSuccess"
      [] m.type = "cancel"      -> "onCancel"
      [] m.type = "error"       -> "onSuccess"
      [] OTHER                  -> "none"

\* const handleMessage = (event) => ...: which host callback a message calls
handleMessageCalls(m) ==
    CASE m.type = "unparseable" -> "onCancel"   \* JSON.parse throws
      [] m.type = "success"     -> "onSuccess"
      [] m.type = "cancel"      -> "onCancel"
      [] m.type = "error"       -> "onCancel"
      [] OTHER                  -> "none"

handleMessage ==
    /\ UNCHANGED <<varsOrders, varsScreens>>
    /\ messages # <<>>
    /\ onSuccessCalls + onCancelCalls < MaxCalls
    /\ messages' = Tail(messages)
    /\ LET call == handleMessageCalls(Head(messages)) IN
         /\ onSuccessCalls' = onSuccessCalls + (IF call = "onSuccess" THEN 1 ELSE 0)
         /\ onCancelCalls' = onCancelCalls + (IF call = "onCancel" THEN 1 ELSE 0)
    /\ UNCHANGED <<amount, PaystackPopDefined, paymentInProgress, retryCount,
                   dom, hideErrorTimers, autoTriggerTimer, handler, attempts,
                   foreign>>

\* WebView onError / onHttpError / onContentProcessDidTerminate
WebViewError ==
    /\ UNCHANGED <<varsOrders, varsScreens>>
    /\ onSuccessCalls + onCancelCalls < MaxCalls
    /\ onCancelCalls' = onCancelCalls + 1
    /\ UNCHANGED <<amount, PaystackPopDefined, paymentInProgress, retryCount,
                   dom, hideErrorTimers, autoTriggerTimer, handler, attempts,
                   messages, foreign, onSuccessCalls>>

NextBridge ==
    \/ PressPay
    \/ AutoTrigger
    \/ HideErrorTimer
    \/ OpenIframeTimer
    \/ ProviderCallback
    \/ ProviderOnClose
    \/ cancelPayment
    \/ PageError
    \/ ForeignMessage
    \/ handleMessage
    \/ WebViewError

(***************************************************************************)
(* Order-detail view (OrderDetailsModal) over the backing store            *)
(***************************************************************************)
\* handler runs (status updates and invoice sends) in one behaviour
MaxOps == 2
\* order.total of the order under view, and the owner's opening balance
OrderTotal == 15000
InitialWallet == 2500


\* the signed-in sessions that have the order on screen
Sessions == {"s1", "s2"}

statusOptions ==
    <<"pending", "confirmed", "processing", "shipped", "delivered", "cancelled">>

customStatusOptions ==
    <<"pending", "under_review", "quoted", "accepted", "rejected",
      "payment_made", "completed", "cancelled">>

Range(f) == {f[i] : i \in DOMAIN f}

\* the result a store call comes back with: a handler stops at its first
\* failed call, so one run is decided by which call (if any) fails
resultAt(failAt, step) == IF failAt = step THEN "error" ELSE "ok"

\* what the invoice form's fields can hold
AmountTexts == {"", "50000", "0"}
Descriptions == {"", "quote"}

ClosedView ==
    [open |-> FALSE, order_status |-> "none", payment_status |-> "none",
     status |-> "none", invoice_sent |-> FALSE, invoices |-> FALSE,
     currency |-> "", profiles |-> FALSE, wallet_balance |-> 0,
     preferred_currency |-> ""]

\* the `order` prop as the parent's query returns it; the profiles and
\* invoices joins are optional in the Order interface
Snapshot ==
    LET joinProfiles == joins.profiles
        joinInvoices == joins.invoices
    IN
    [open |-> TRUE, order_status |-> order_status,
     payment_status |-> payment_status, status |-> status,
     invoice_sent |-> invoice_sent,
     invoices |-> joinInvoices /\ invoices # <<>>,
     currency |-> currency,
     profiles |-> joinProfiles,
     wallet_balance |-> IF joinProfiles THEN wallet_balance ELSE 0,
     preferred_currency |-> IF joinProfiles THEN preferred_currency ELSE ""]

NoForm == [amount |-> "", description |-> ""]

NoOp == [n |-> 0, op |-> "none", session |-> "none", newStatus |-> "none",
         form |-> NoForm, outcome |-> "none", calls |-> <<>>]

InitOrders ==
    /\ orderKind \in {"standard", "custom"}
    /\ order_status = IF orderKind = "standard" THEN "pending" ELSE "none"
    /\ payment_status \in IF orderKind = "standard" THEN {"pending", "paid"}
                          ELSE {"none"}
    /\ status = IF orderKind = "custom" THEN "pending" ELSE "none"
    /\ invoice_sent = FALSE
    /\ \E c \in IF orderKind = "custom"
                THEN {<<"USD", "">>, <<"", "USD">>, <<"", "">>}
                ELSE {<<"", "">>} :
          currency = c[1] /\ preferred_currency = c[2]
    /\ joins \in [profiles : BOOLEAN,
                  invoices : IF orderKind = "custom" THEN BOOLEAN ELSE {FALSE}]
    /\ isAdmin \in {[s \in Sessions |-> TRUE],
                    [s \in Sessions |-> s = "s1"]}
    /\ wallet_balance = InitialWallet
    /\ transactions = <<>>
    /\ invoices = <<>>
    /\ notifications = <<>>
    /\ view = [s \in Sessions |-> ClosedView]
    /\ showInvoiceModal = [s \in Sessions |-> FALSE]
    /\ lastOp = NoOp

isCustomOrder == orderKind = "custom"

\* const currentStatus = isCustomOrder ? order.status : order.order_status
currentStatus(v) == IF isCustomOrder THEN v.status ELSE v.order_status

call(table, verb, result) == [table |-> table, verb |-> verb, result |-> result]

\* ---- the parent screen hands the modal an order
OpenView(s) ==
    /\ ~view[s].open
    /\ view' = [view EXCEPT ![s] = Snapshot]
    /\ UNCHANGED <<orderKind, order_status, payment_status, status,
                   invoice_sent, currency, preferred_currency, wallet_balance,
                   transactions, invoices, notifications, joins, isAdmin,
                   showInvoiceModal, lastOp>>
    /\ UNCHANGED <<varsBridge, varsScreens>>

\* the parent re-fetches and passes a new `order` prop
RefreshView(s) ==
    /\ view[s].open
    /\ view' = [view EXCEPT ![s] = Snapshot]
    /\ view'[s] # view[s]
    /\ UNCHANGED <<orderKind, order_status, payment_status, status,
                   invoice_sent, currency, preferred_currency, wallet_balance,
                   transactions, invoices, notifications, joins, isAdmin,
                   showInvoiceModal, lastOp>>
    /\ UNCHANGED <<varsBridge, varsScreens>>

\* the header's close button (onClose)
CloseView(s) ==
    /\ view[s].open
    /\ ~showInvoiceModal[s]
    /\ view' = [view EXCEPT ![s] = ClosedView]
    /\ UNCHANGED <<orderKind, order_status, payment_status, status,
                   invoice_sent, currency, preferred_currency, wallet_balance,
                   transactions, invoices, notifications, joins, isAdmin,
                   showInvoiceModal, lastOp>>
    /\ UNCHANGED <<varsBridge, varsScreens>>

\* ---- handleRefund: its three store writes, the first failure raising
refundTransaction ==
    [user_id |-> "owner", type |-> "credit", amount |-> OrderTotal,
     reference |-> "order", status |-> "completed"]

\* the transaction insert issued whatever the wallet update returned
handleRefund_NoWalletCheck(v, rWallet, rTransaction, rPayment) ==
    LET credited == v.wallet_balance + OrderTotal
        c1 == <<call("profiles", "update", rWallet)>>
        c2 == Append(c1, call("transactions", "insert", rTransaction))
        c3 == Append(c2, call("orders", "update_payment_status", rPayment))
        wallet == IF rWallet = "error" THEN wallet_balance ELSE credited
    IN  IF ~v.profiles
        THEN [threw |-> FALSE, wallet |-> wallet_balance,
              transactions |-> transactions, payment |-> payment_status,
              calls |-> <<>>]
        ELSE IF rTransaction = "error"
        THEN [threw |-> TRUE, wallet |-> wallet,
              transactions |-> transactions, payment |-> payment_status,
              calls |-> c2]
        ELSE IF rPayment = "error"
        THEN [threw |-> TRUE, wallet |-> wallet,
              transactions |-> Append(transactions, refundTransaction),
              payment |-> payment_status, calls |-> c3]
        ELSE [threw |-> FALSE, wallet |-> wallet,
              transactions |-> Append(transactions, refundTransaction),
              payment |-> "refunded", calls |-> c3]

handleRefund(v, rWallet, rTransaction, rPayment) ==
    LET credited == v.wallet_balance + OrderTotal
        c1 == <<call("profiles", "update", rWallet)>>
        c2 == Append(c1, call("transactions", "insert", rTransaction))
        c3 == Append(c2, call("orders", "update_payment_status", rPayment))
    IN  IF ~v.profiles
        THEN [threw |-> FALSE, wallet |-> wallet_balance,
              transactions |-> transactions, payment |-> payment_status,
              calls |-> <<>>]
        ELSE IF rWallet = "error"
        THEN [threw |-> TRUE, wallet |-> wallet_balance,
              transactions |-> transactions, payment |-> payment_status,
              calls |-> c1]
        ELSE IF rTransaction = "error"
        THEN [threw |-> TRUE, wallet |-> credited,
              transactions |-> transactions, payment |-> payment_status,
              calls |-> c2]
        ELSE IF rPayment = "error"
        THEN [threw |-> TRUE, wallet |-> credited,
              transactions |-> Append(transactions, refundTransaction),
              payment |-> payment_status, calls |-> c3]
        ELSE [threw |-> FALSE, wallet |-> credited,
              transactions |-> Append(transactions, refundTransaction),
              payment |-> "refunded", calls |-> c3]

\* the refund condition of handleStatusUpdate
refundDue(v, newStatus) ==
    newStatus = "cancelled" /\ ~isCustomOrder /\ v.payment_status = "paid"

\* the guard with the role check left out
StatusManagementShown_NoRoleCheck(s) ==
    /\ view[s].open
    /\ currentStatus(view[s]) \notin {"completed", "cancelled", "delivered", "rejected"}

\* the render guard of the Status Management section
StatusManagementShown(s) ==
    /\ view[s].open
    /\ isAdmin[s]
    /\ currentStatus(view[s]) \notin {"completed", "cancelled", "delivered", "rejected"}

\* the options of the other order kind rendered
StatusOptionEnabled_OtherKind(s, option) ==
    /\ option \in Range(IF isCustomOrder THEN statusOptions ELSE customStatusOptions)
    /\ currentStatus(view[s]) # option

\* the option of the current status left enabled
StatusOptionEnabled_CurrentToo(s, option) ==
    option \in Range(IF isCustomOrder THEN customStatusOptions ELSE statusOptions)

\* the options rendered, and which of them take a press
StatusOptionEnabled(s, option) ==
    /\ option \in Range(IF isCustomOrder THEN customStatusOptions ELSE statusOptions)
    /\ currentStatus(view[s]) # option

\* the insert issued twice
statusNotification_Twice(rows, rNotification) ==
    IF rNotification = "ok"
    THEN rows \o << [user_id |-> "owner", type |-> "order"],
                    [user_id |-> "owner", type |-> "order"] >>
    ELSE rows

\* the notification insert of a status update: its result is not looked at
statusNotification(rows, rNotification) ==
    IF rNotification = "ok"
    THEN Append(rows, [user_id |-> "owner", type |-> "order"])
    ELSE rows

\* the error of the status write not looked at
statusWritten_ErrorIgnored(refundThrew, rStatus) == ~refundThrew

\* the status write took effect: the refund did not raise, and
\* `if (error) throw error` did not either
statusWritten(refundThrew, rStatus) == ~refundThrew /\ rStatus = "ok"

handleStatusUpdate(s, newStatus) ==
    /\ lastOp.n < MaxOps
    /\ StatusManagementShown(s)
    /\ ~showInvoiceModal[s]
    /\ StatusOptionEnabled(s, newStatus)
    /\ \E failAt \in {"none", "wallet", "transaction", "payment", "status",
                      "notification"} :
         LET v == view[s]
             rWallet == resultAt(failAt, "wallet")
             rTransaction == resultAt(failAt, "transaction")
             rPayment == resultAt(failAt, "payment")
             rStatus == resultAt(failAt, "status")
             rNotification == resultAt(failAt, "notification")
             noRefund == [threw |-> FALSE, wallet |-> wallet_balance,
                          transactions |-> transactions,
                          payment |-> payment_status, calls |-> <<>>]
             refund == IF refundDue(v, newStatus)
                       THEN handleRefund(v, rWallet, rTransaction, rPayment)
                       ELSE noRefund
             table == IF isCustomOrder THEN "custom_requests" ELSE "orders"
             written == statusWritten(refund.threw, rStatus)
             calls == IF refund.threw THEN refund.calls
                      ELSE IF rStatus = "error"
                      THEN Append(refund.calls, call(table, "update_status", rStatus))
                      ELSE refund.calls \o
                           << call(table, "update_status", rStatus),
                              call("notifications", "insert", rNotification) >>
         IN  /\ wallet_balance' = refund.wallet
             /\ transactions' = refund.transactions
             /\ payment_status' = refund.payment
             /\ order_status' = IF written /\ ~isCustomOrder
                                THEN newStatus ELSE order_status
             /\ status' = IF written /\ isCustomOrder THEN newStatus ELSE status
             /\ notifications' = IF written
                                 THEN statusNotification(notifications, rNotification)
                                 ELSE notifications
             \* onOrderUpdate(); onClose() on success; the catch leaves the view up
             /\ view' = IF written THEN [view EXCEPT ![s] = ClosedView] ELSE view
             /\ lastOp' = [n |-> lastOp.n + 1, op |-> "handleStatusUpdate",
                           session |-> s, newStatus |-> newStatus,
                           form |-> NoForm,
                           outcome |-> IF written THEN "success" ELSE "error",
                           calls |-> calls]
    /\ UNCHANGED <<orderKind, invoice_sent, currency, preferred_currency,
                   invoices, joins, isAdmin, showInvoiceModal>>
    /\ UNCHANGED <<varsBridge, varsScreens>>

\* ---- invoices
\* const canSendInvoice = () => ...
canSendInvoice(s) ==
    /\ isAdmin[s] /\ isCustomOrder
    /\ currentStatus(view[s]) \notin {"completed", "cancelled", "rejected"}
    /\ ~(view[s].invoice_sent \/ view[s].invoices)

\* the "Send Invoice" button, rendered when canSendInvoice()
OpenInvoiceModal(s) ==
    /\ view[s].open
    /\ ~showInvoiceModal[s]
    /\ canSendInvoice(s)
    /\ showInvoiceModal' = [showInvoiceModal EXCEPT ![s] = TRUE]
    /\ UNCHANGED <<orderKind, order_status, payment_status, status,
                   invoice_sent, currency, preferred_currency, wallet_balance,
                   transactions, invoices, notifications, joins, isAdmin,
                   view, lastOp>>
    /\ UNCHANGED <<varsBridge, varsScreens>>

\* the invoice form's Cancel button
CloseInvoiceModal(s) ==
    /\ showInvoiceModal[s]
    /\ showInvoiceModal' = [showInvoiceModal EXCEPT ![s] = FALSE]
    /\ UNCHANGED <<orderKind, order_status, payment_status, status,
                   invoice_sent, currency, preferred_currency, wallet_balance,
                   transactions, invoices, notifications, joins, isAdmin,
                   view, lastOp>>
    /\ UNCHANGED <<varsBridge, varsScreens>>

\* the owner's preference left out of the chain
getActualPaymentCurrency_NoPreference(v) ==
    IF v.currency # "" THEN v.currency ELSE "NGN"

\* const getActualPaymentCurrency = () => ...   ("" is an absent value)
getActualPaymentCurrency(v) ==
    IF isCustomOrder
    THEN IF v.currency # "" THEN v.currency
         ELSE IF v.profiles /\ v.preferred_currency # "" THEN v.preferred_currency
         ELSE "NGN"
    ELSE IF v.currency # "" THEN v.currency ELSE "NGN"

\* parseFloat of the form's amount text
parseFloat(text) ==
    CASE text = "50000" -> 50000
      [] text = "0" -> 0
      [] OTHER -> 0

\* lib/currency: a linear conversion at a fixed rate per currency
RateUSD == 1500
convertToNGN(amt, cur) == IF cur = "USD" THEN amt * RateUSD ELSE amt

\* errors of the store: a Postgres error carries its code and, in its
\* message, the name of the constraint violated
NoError == [code |-> "", constraint |-> ""]
TransportError == [code |-> "fetch_failed", constraint |-> ""]
UniqueViolation == [code |-> "23505", constraint |-> "unique_invoice_per_custom_request"]

\* the store's insert into invoices under the one-invoice-per-custom-order
\* constraint
invoicesInsert(rows, row, fault) ==
    IF fault = "error" THEN [error |-> TransportError, rows |-> rows]
    ELSE IF \E i \in DOMAIN rows : rows[i].custom_request_id = row.custom_request_id
    THEN [error |-> UniqueViolation, rows |-> rows]
    ELSE [error |-> NoError, rows |-> Append(rows, row)]

\* the branch looking for another constraint's name
isUniqueInvoiceViolation_OtherName(error) ==
    error.code = "23505" /\ error.constraint = "invoices_custom_request_id_key"

\* the invoiceError branch: which error is "Invoice Already Exists"
isUniqueInvoiceViolation(error) ==
    error.code = "23505" /\ error.constraint = "unique_invoice_per_custom_request"

\* the check of the invoices list left out
invoiceGuards_FlagOnly(v, amountText, description) ==
    IF amountText = "" \/ description = "" THEN "fill_fields"
    ELSE IF v.invoice_sent THEN "already_sent"
    ELSE "go"

\* the early returns of handleSendInvoice, in the order the code makes them
invoiceGuards(v, amountText, description) ==
    IF amountText = "" \/ description = "" THEN "fill_fields"
    ELSE IF v.invoice_sent THEN "already_sent"
    ELSE IF v.invoices THEN "already_exists"
    ELSE "go"

\* the error of the insert not looked at
invoiceAccepted_ErrorIgnored(checked, error) == checked = "go"

\* the insert was issued and `if (invoiceError)` found no error
invoiceAccepted(checked, error) == checked = "go" /\ error = NoError

\* the update with the flag left as it was
sentInvoiceUpdate_StatusOnly == [status |-> "quoted", invoice_sent |-> FALSE]

\* .update({ status: 'quoted', invoice_sent: true })
sentInvoiceUpdate == [status |-> "quoted", invoice_sent |-> TRUE]

handleSendInvoice(s) ==
    /\ lastOp.n < MaxOps
    /\ view[s].open
    /\ isAdmin[s] /\ isCustomOrder
    /\ showInvoiceModal[s]
    /\ \E amountText \in AmountTexts, description \in Descriptions,
          failAt \in {"none", "invoice", "status", "notification"} :
         LET v == view[s]
             rInvoice == resultAt(failAt, "invoice")
             rStatus == resultAt(failAt, "status")
             rNotification == resultAt(failAt, "notification")
             actualPaymentCurrency == getActualPaymentCurrency(v)
             amountInCustomerCurrency == parseFloat(amountText)
             amountInNGN == IF actualPaymentCurrency = "NGN"
                            THEN amountInCustomerCurrency
                            ELSE convertToNGN(amountInCustomerCurrency,
                                              actualPaymentCurrency)
             row == [custom_request_id |-> "order", user_id |-> "owner",
                     amount |-> amountInNGN,
                     original_amount |-> amountInCustomerCurrency,
                     currency |-> actualPaymentCurrency, status |-> "sent"]
             checked == invoiceGuards(v, amountText, description)
             ins == invoicesInsert(invoices, row, rInvoice)
             inserted == invoiceAccepted(checked, ins.error)
             flagged == inserted /\ rStatus = "ok"
             outcome == IF checked # "go" THEN checked
                        ELSE IF ins.error # NoError
                        THEN IF isUniqueInvoiceViolation(ins.error)
                             THEN "already_exists" ELSE "failed"
                        ELSE IF rStatus = "error" THEN "failed"
                        ELSE "success"
             insCall == call("invoices", "insert",
                             IF ins.error = NoError THEN "ok" ELSE ins.error.code)
             calls == IF checked # "go" THEN <<>>
                      ELSE IF ~inserted THEN <<insCall>>
                      ELSE IF ~flagged
                      THEN <<insCall, call("custom_requests", "update_status", rStatus)>>
                      ELSE <<insCall, call("custom_requests", "update_status", rStatus),
                             call("notifications", "insert", rNotification)>>
         IN  /\ invoices' = IF checked = "go" THEN ins.rows ELSE invoices
             /\ status' = IF flagged THEN sentInvoiceUpdate.status ELSE status
             /\ invoice_sent' = IF flagged THEN sentInvoiceUpdate.invoice_sent
                                ELSE invoice_sent
             /\ notifications' =
                   IF flagged /\ rNotification = "ok"
                   THEN Append(notifications, [user_id |-> "owner", type |-> "custom"])
                   ELSE notifications
             \* setShowInvoiceModal(false) on success only
             /\ showInvoiceModal' = IF flagged
                                    THEN [showInvoiceModal EXCEPT ![s] = FALSE]
                                    ELSE showInvoiceModal
             /\ lastOp' = [n |-> lastOp.n + 1, op |-> "handleSendInvoice",
                           session |-> s, newStatus |-> "quoted",
                           form |-> [amount |-> amountText,
                                     description |-> description],
                           outcome |-> outcome, calls |-> calls]
    /\ UNCHANGED <<orderKind, order_status, payment_status, currency,
                   preferred_currency, wallet_balance, transactions, joins,
                   isAdmin, view>>
    /\ UNCHANGED <<varsBridge, varsScreens>>

NextOrders ==
    \/ \E s \in Sessions : OpenView(s)
    \/ \E s \in Sessions : RefreshView(s)
    \/ \E s \in Sessions : CloseView(s)
    \/ \E s \in Sessions, newStatus \in Range(statusOptions) \cup Range(customStatusOptions) :
          handleStatusUpdate(s, newStatus)
    \/ \E s \in Sessions : OpenInvoiceModal(s)
    \/ \E s \in Sessions : CloseInvoiceModal(s)
    \/ \E s \in Sessions : handleSendInvoice(s)

(***************************************************************************)
(* Home screen (app/(customer)/index.tsx): the effect on [profile] and the *)
(* two fetches it starts                                                   *)
(***************************************************************************)
\* runs of the effect in one behaviour (the mount and later profile changes)
MaxEffectRuns == 2

\* one run of the effect with a profile: where fetchProducts and
\* fetchSpecialOffers stand ("getSession" and "query" are their two awaits)
\* and whether the .finally callback of Promise.all has run
NewRun == [products |-> "getSession", offers |-> "getSession", settled |-> FALSE]

InitHome ==
    home \in {[mounted |-> FALSE, profile |-> p, loading |-> TRUE,
               effects |-> 0, productsSet |-> FALSE, offersSet |-> FALSE,
               runs |-> <<>>] : p \in BOOLEAN}

\* the body of useEffect(..., [profile]) under profile value p
homeEffect(h, p) ==
    IF p
    THEN [h EXCEPT !.profile = p, !.effects = h.effects + 1,
                   !.runs = Append(h.runs, NewRun)]
    ELSE [h EXCEPT !.profile = p, !.effects = h.effects + 1,
                   !.loading = FALSE]

\* the screen mounts: the effect runs for the first time
HomeMount ==
    /\ ~home.mounted
    /\ home' = homeEffect([home EXCEPT !.mounted = TRUE], home.profile)
    /\ UNCHANGED <<varsBridge, varsOrders, walletHistory, statusUpdate>>

\* useAuth() hands the screen another profile value: the effect runs again
HomeProfileChanges ==
    /\ home.mounted
    /\ home.effects < MaxEffectRuns
    /\ \E p \in BOOLEAN :
          /\ p \/ home.profile
          /\ home' = homeEffect(home, p)
    /\ UNCHANGED <<varsBridge, varsOrders, walletHistory, statusUpdate>>

\* fetchProducts: supabase.auth.getSession() comes back; without a session
\* the loading flag is cleared and the function returns
fetchProducts_getSession(i) ==
    /\ i \in DOMAIN home.runs
    /\ home.runs[i].products = "getSession"
    /\ \E session \in BOOLEAN :
          home' = IF session
                  THEN [home EXCEPT !.runs[i].products = "query"]
                  ELSE [home EXCEPT !.runs[i].products = "done",
                                    !.loading = FALSE]
    /\ UNCHANGED <<varsBridge, varsOrders, walletHistory, statusUpdate>>

\* fetchProducts: the select on product_card_data comes back; an error is
\* logged (and alerted), an exception is caught and logged
fetchProducts_select(i) ==
    /\ i \in DOMAIN home.runs
    /\ home.runs[i].products = "query"
    /\ \E result \in {"ok", "error"} :
          home' = [home EXCEPT !.runs[i].products = "done",
                               !.productsSet = @ \/ result = "ok"]
    /\ UNCHANGED <<varsBridge, varsOrders, walletHistory, statusUpdate>>

\* fetchSpecialOffers: supabase.auth.getSession() comes back
fetchSpecialOffers_getSession(i) ==
    /\ i \in DOMAIN home.runs
    /\ home.runs[i].offers = "getSession"
    /\ \E session \in BOOLEAN :
          home' = [home EXCEPT !.runs[i].offers =
                                   IF session THEN "query" ELSE "done"]
    /\ UNCHANGED <<varsBridge, varsOrders, walletHistory, statusUpdate>>

\* fetchSpecialOffers: the select on special_offers comes back
fetchSpecialOffers_select(i) ==
    /\ i \in DOMAIN home.runs
    /\ home.runs[i].offers = "query"
    /\ \E result \in {"ok", "error"} :
          home' = [home EXCEPT !.runs[i].offers = "done",
                               !.offersSet = @ \/ result = "ok"]
    /\ UNCHANGED <<varsBridge, varsOrders, walletHistory, statusUpdate>>

\* Promise.all([...]).finally(() => setLoading(false))
homeJoined(h, i) == [h EXCEPT !.runs[i].settled = TRUE, !.loading = FALSE]

HomeJoin(i) ==
    /\ i \in DOMAIN home.runs
    /\ home.runs[i].products = "done"
    /\ home.runs[i].offers = "done"
    /\ ~home.runs[i].settled
    /\ home' = homeJoined(home, i)
    /\ UNCHANGED <<varsBridge, varsOrders, walletHistory, statusUpdate>>

NextHome ==
    \/ HomeMount
    \/ HomeProfileChanges
    \/ \E i \in 1..MaxEffectRuns : fetchProducts_getSession(i)
    \/ \E i \in 1..MaxEffectRuns : fetchProducts_select(i)
    \/ \E i \in 1..MaxEffectRuns : fetchSpecialOffers_getSession(i)
    \/ \E i \in 1..MaxEffectRuns : fetchSpecialOffers_select(i)
    \/ \E i \in 1..MaxEffectRuns : HomeJoin(i)

(***************************************************************************)
(* Wallet history screen (app/(customer)/wallet-history.tsx)               *)
(***************************************************************************)
\* invocations of fetchTransactions in one behaviour
MaxFetches == 5

InitWalletHistory ==
    walletHistory \in
        {[mounted |-> FALSE, user |-> u, loading |-> TRUE, refreshing |-> FALSE,
          invocations |-> 0, effectQueries |-> 0, refresh |-> "idle",
          transactionsSet |-> FALSE] : u \in BOOLEAN}

\* const fetchTransactions = async () => ..., up to its first await:
\* without a user it returns before the try, otherwise the select is
\* issued.  `origin` is who awaits (or drops) the promise: the effect, or
\* onRefresh, which resumes once the promise is settled
fetchTransactions(w, origin) ==
    LET counted == [w EXCEPT !.invocations = w.invocations + 1] IN
    IF ~w.user
    THEN IF origin = "onRefresh"
         THEN [counted EXCEPT !.refresh = "resume"]
         ELSE counted
    ELSE IF origin = "onRefresh"
         THEN [counted EXCEPT !.refresh = "query"]
         ELSE [counted EXCEPT !.effectQueries = w.effectQueries + 1]

\* the select has come back: setTransactions on success, the catch logs an
\* error, and the finally clears the loading flag
fetchTransactionsReturns(w, result) ==
    [w EXCEPT !.transactionsSet = @ \/ result = "ok", !.loading = FALSE]

\* the screen mounts: useEffect(() => { fetchTransactions() }, [user])
WalletHistoryMount ==
    /\ ~walletHistory.mounted
    /\ walletHistory' =
          fetchTransactions([walletHistory EXCEPT !.mounted = TRUE], "effect")
    /\ UNCHANGED <<varsBridge, varsOrders, home, statusUpdate>>

\* useAuth() hands the screen another user value: the effect runs again
WalletHistoryUserChanges ==
    /\ walletHistory.mounted
    /\ walletHistory.invocations < MaxFetches
    /\ \E u \in BOOLEAN :
          /\ u \/ walletHistory.user
          /\ walletHistory' =
                fetchTransactions([walletHistory EXCEPT !.user = u], "effect")
    /\ UNCHANGED <<varsBridge, varsOrders, home, statusUpdate>>

\* const onRefresh = async () => ..., up to its await
onRefresh ==
    /\ walletHistory.mounted
    /\ ~walletHistory.refreshing
    /\ walletHistory.refresh = "idle"
    /\ walletHistory.invocations < MaxFetches
    /\ walletHistory' =
          fetchTransactions([walletHistory EXCEPT !.refreshing = TRUE], "onRefresh")
    /\ UNCHANGED <<varsBridge, varsOrders, home, statusUpdate>>

\* a select started by the effect comes back
EffectSelectReturns ==
    /\ walletHistory.effectQueries > 0
    /\ \E result \in {"ok", "error"} :
          walletHistory' =
              [fetchTransactionsReturns(walletHistory, result)
                  EXCEPT !.effectQueries = walletHistory.effectQueries - 1]
    /\ UNCHANGED <<varsBridge, varsOrders, home, statusUpdate>>

\* the select started by onRefresh comes back
RefreshSelectReturns ==
    /\ walletHistory.refresh = "query"
    /\ \E result \in {"ok", "error"} :
          walletHistory' =
              [fetchTransactionsReturns(walletHistory, result)
                  EXCEPT !.refresh = "resume"]
    /\ UNCHANGED <<varsBridge, varsOrders, home, statusUpdate>>

\* onRefresh after its await: setRefreshing(false)
onRefreshResumes ==
    /\ walletHistory.refresh = "resume"
    /\ walletHistory' = [walletHistory EXCEPT !.refresh = "idle",
                                              !.refreshing = FALSE]
    /\ UNCHANGED <<varsBridge, varsOrders, home, statusUpdate>>

NextWalletHistory ==
    \/ WalletHistoryMount
    \/ WalletHistoryUserChanges
    \/ onRefresh
    \/ EffectSelectReturns
    \/ RefreshSelectReturns
    \/ onRefreshResumes

(***************************************************************************)
(* OrderDetailsModal: the updating flag around handleStatusUpdate, with    *)
(* the handler's awaits as separate steps                                  *)
(***************************************************************************)
\* status updates started from one view in one behaviour
MaxUpdates == 2

\* the awaits of handleStatusUpdate, in order; the first three are those of
\* handleRefund
updateAwaits == <<"wallet", "transaction", "payment", "status", "notification">>

InitStatusUpdate ==
    statusUpdate = [s \in Sessions |->
                       [updating |-> FALSE, inFlight |-> <<>>, started |-> 0,
                        last |-> "none"]]

\* the flag left out of the prop
statusOptionDisabled_CurrentOnly(updating, isCurrent) == isCurrent

\* disabled={updating || currentStatus === status}
statusOptionDisabled(updating, isCurrent) == updating \/ isCurrent

\* an option is pressed: handleStatusUpdate runs up to its first await
\* (setUpdating(true), then the refund's first write or the status write),
\* and the view is rendered again before the next press is taken
StatusUpdateStarts(s) ==
    /\ statusUpdate[s].started < MaxUpdates
    /\ \E isCurrent \in BOOLEAN, refund \in BOOLEAN :
          /\ ~statusOptionDisabled(statusUpdate[s].updating, isCurrent)
          /\ statusUpdate' =
                [statusUpdate EXCEPT
                    ![s].updating = TRUE,
                    ![s].started = @ + 1,
                    ![s].inFlight = Append(@, IF refund THEN 1 ELSE 4)]
    /\ UNCHANGED <<varsBridge, varsOrders, home, walletHistory>>

\* a run leaves the handler: finally { setUpdating(false) }
statusUpdateEnds(u, i, outcome) ==
    [u EXCEPT !.updating = FALSE,
              !.last = outcome,
              !.inFlight = SubSeq(@, 1, i - 1) \o SubSeq(@, i + 1, Len(@))]

\* the store call a run awaits comes back: an error of a refund write or of
\* the status write is thrown and caught; the notification insert's result
\* is not looked at and the run ends in success
StatusUpdateCallReturns(s, i) ==
    /\ i \in DOMAIN statusUpdate[s].inFlight
    /\ \E result \in {"ok", "error"} :
          LET at == statusUpdate[s].inFlight[i] IN
          statusUpdate' =
              [statusUpdate EXCEPT ![s] =
                  IF updateAwaits[at] = "notification"
                  THEN statusUpdateEnds(@, i, "success")
                  ELSE IF result = "error"
                  THEN statusUpdateEnds(@, i, "error")
                  ELSE [@ EXCEPT !.inFlight[i] = at + 1]]
    /\ UNCHANGED <<varsBridge, varsOrders, home, walletHistory>>

NextStatusUpdate ==
    \/ \E s \in Sessions : StatusUpdateStarts(s)
    \/ \E s \in Sessions, i \in 1..MaxUpdates : StatusUpdateCallReturns(s, i)

\* the parts of the application a specification leaves at rest
BridgeAtRest ==
    /\ InitBridge
    /\ amount = [units |-> 1000, cents |-> 0]
    /\ PaystackPopDefined

OrdersAtRest ==
    /\ InitOrders
    /\ orderKind = "standard"
    /\ payment_status = "paid"
    /\ joins = [profiles |-> TRUE, invoices |-> FALSE]
    /\ isAdmin = [s \in Sessions |-> TRUE]

HomeAtRest == InitHome /\ home.profile

WalletHistoryAtRest == InitWalletHistory /\ walletHistory.user

\* the order-detail view alone: the bridge is not presented
InitOrdersOnly ==
    /\ InitOrders
    /\ InitBridge
    /\ amount = [units |-> 1000, cents |-> 0]
    /\ PaystackPopDefined
    /\ HomeAtRest
    /\ WalletHistoryAtRest
    /\ InitStatusUpdate

\* the Payment Bridge alone: a paid standard order sits in the store
InitBridgeOnly ==
    /\ InitBridge
    /\ InitOrders
    /\ orderKind = "standard"
    /\ payment_status = "paid"
    /\ joins = [profiles |-> TRUE, invoices |-> FALSE]
    /\ isAdmin = [s \in Sessions |-> TRUE]
    /\ HomeAtRest
    /\ WalletHistoryAtRest
    /\ InitStatusUpdate

\* the home screen alone
InitHomeOnly ==
    /\ BridgeAtRest
    /\ OrdersAtRest
    /\ InitHome
    /\ WalletHistoryAtRest
    /\ InitStatusUpdate

\* the wallet history screen alone
InitWalletHistoryOnly ==
    /\ BridgeAtRest
    /\ OrdersAtRest
    /\ HomeAtRest
    /\ InitWalletHistory
    /\ InitStatusUpdate

\* the updating flag alone
InitStatusUpdateOnly ==
    /\ BridgeAtRest
    /\ OrdersAtRest
    /\ HomeAtRest
    /\ WalletHistoryAtRest
    /\ InitStatusUpdate

SpecOrders == InitOrdersOnly /\ [][NextOrders]_vars

SpecBridge == InitBridgeOnly /\ [][NextBridge]_vars

SpecHome == InitHomeOnly /\ [][NextHome]_vars

\* every select the store has been sent comes back (the transport answers
\* or times out), and an async function whose await has settled resumes
SpecWalletHistory ==
    /\ InitWalletHistoryOnly
    /\ [][NextWalletHistory]_vars
    /\ WF_vars(EffectSelectReturns)
    /\ WF_vars(RefreshSelectReturns)
    /\ WF_vars(onRefreshResumes)

SpecStatusUpdate == InitStatusUpdateOnly /\ [][NextStatusUpdate]_vars

(***************************************************************************)
(* Properties                                                              *)
(***************************************************************************)
\* a step that runs handleStatusUpdate or handleSendInvoice
HandlerStep(op) == lastOp'.n # lastOp.n /\ lastOp'.op = op

\* the store calls of a run, by their results
AnyCall(calls, results) == \E i \in DOMAIN calls : calls[i].result \in results
RefundCalls(calls) ==
    {i \in DOMAIN calls : calls[i].table \in {"profiles", "transactions"}
                          \/ calls[i].verb = "update_payment_status"}

\* C1: for one presentation the host receives at most one outcome callback
\* in total (onSuccess or onCancel), whatever the presses, timers, provider
\* events, foreign messages and WebView errors.
C1_AtMostOneOutcome == onSuccessCalls + onCancelCalls <= 1

\* C2: when the provider script never loads and the retries are used up
\* (the page shows its final "failed to load" error), an outcome has been
\* posted to or delivered to the host.
C2_LoadFailureReachesHost ==
    (~PaystackPopDefined /\ dom.errorText = "failed_to_load")
        => (messages # <<>> \/ onSuccessCalls + onCancelCalls > 0)

\* C3: cancelling a standard order seen as paid runs the refund before the
\* status write; when a refund step fails the status write is not issued
\* and order_status, payment_status, the wallet balance and the ledger are
\* all as before.
C3_FailedRefundChangesNothing ==
    [][ ( /\ HandlerStep("handleStatusUpdate")
          /\ refundDue(view[lastOp'.session], lastOp'.newStatus)
          /\ \E i \in RefundCalls(lastOp'.calls) : lastOp'.calls[i].result = "error" )
        => ( /\ \A i \in DOMAIN lastOp'.calls : lastOp'.calls[i].verb # "update_status"
             /\ UNCHANGED <<order_status, payment_status, wallet_balance,
                            transactions>> ) ]_vars

\* C4: cancelling a paid standard order with every store call succeeding
\* credits the wallet with exactly the order total, adds exactly one
\* completed credit transaction of that amount referencing the order, and
\* leaves payment_status 'refunded' and order_status 'cancelled'.
C4_CancelPaidOrderRefunds ==
    [][ ( /\ HandlerStep("handleStatusUpdate")
          /\ lastOp'.newStatus = "cancelled"
          /\ ~isCustomOrder
          /\ payment_status = "paid"
          /\ ~AnyCall(lastOp'.calls, {"error"}) )
        => ( /\ wallet_balance' = wallet_balance + OrderTotal
             /\ transactions' = Append(transactions, refundTransaction)
             /\ payment_status' = "refunded"
             /\ order_status' = "cancelled" ) ]_vars

\* C5: a custom order never has more than one persisted Invoice; a
\* handleSendInvoice run with both fields filled on an order that already
\* has an Invoice in the store creates no record and ends "already sent" /
\* "already exists" (unless the store call itself could not be made).
C5_SecondSendCreatesNothing ==
    /\ [](Len(invoices) <= 1)
    /\ [][ ( /\ HandlerStep("handleSendInvoice")
             /\ invoices # <<>>
             /\ lastOp'.outcome # "fill_fields"
             /\ ~AnyCall(lastOp'.calls, {TransportError.code}) )
           => ( /\ invoices' = invoices
                /\ lastOp'.outcome \in {"already_sent", "already_exists"} ) ]_vars

\* a second send from a view loaded before the first one: the insert meets
\* the store's constraint
C5_Witness ==
    /\ lastOp.op = "handleSendInvoice"
    /\ lastOp.n = 2
    /\ lastOp.outcome = "already_exists"
    /\ lastOp.calls = <<call("invoices", "insert", "23505")>>
    /\ invoice_sent
    /\ Len(invoices) = 1

\* C6: whenever an Invoice is persisted for the custom order, the order's
\* invoice_sent flag is set (the flag and status flip together with the
\* record).
C6_InvoiceImpliesFlag == invoices # <<>> => invoice_sent

\* C7: no handler run is ever made by a non-admin session, and every change
\* of orders, custom_requests, invoices, profiles, transactions or
\* notifications is made by a handler run of an admin session.
C7_OnlyAdminsMutate ==
    [][ /\ lastOp' # lastOp => isAdmin[lastOp'.session]
        /\ ~UNCHANGED <<order_status, payment_status, status, invoice_sent,
                        invoices, wallet_balance, transactions, notifications>>
             => (lastOp'.n = lastOp.n + 1 /\ isAdmin[lastOp'.session]) ]_vars

\* a non-admin has the order open, in a status for which an admin is shown
\* the status options, and an admin has already run a handler
C7_Witness ==
    \E s \in Sessions :
        /\ ~isAdmin[s]
        /\ view[s].open
        /\ currentStatus(view[s]) \notin {"completed", "cancelled", "delivered", "rejected"}
        /\ lastOp.n > 0
        /\ lastOp.outcome = "success"

\* C8 (as claimed): every status update whose status write succeeds adds
\* exactly one notification row addressed to the owner, also when the
\* notification insert fails in the store.
C8_AlwaysOneNotification ==
    [][ ( HandlerStep("handleStatusUpdate") /\ lastOp'.outcome = "success" )
        => notifications' = Append(notifications, [user_id |-> "owner", type |-> "order"]) ]_vars

\* C8 (amended): a status update whose status write succeeds issues one
\* notification insert for the owner; it adds exactly one row when that
\* insert succeeds and none when it fails; a status update whose status
\* write did not succeed adds none.
C8_OneNotificationIfInsertSucceeds ==
    [][ HandlerStep("handleStatusUpdate")
        => LET calls == lastOp'.calls
               last == calls[Len(calls)]
           IN IF lastOp'.outcome = "success"
              THEN /\ last.table = "notifications"
                   /\ Cardinality({i \in DOMAIN calls : calls[i].table = "notifications"}) = 1
                   /\ notifications' =
                        IF last.result = "ok"
                        THEN Append(notifications, [user_id |-> "owner", type |-> "order"])
                        ELSE notifications
              ELSE notifications' = notifications ]_vars

C8_Witness ==
    /\ lastOp.op = "handleStatusUpdate"
    /\ lastOp.outcome = "success"
    /\ lastOp.calls[Len(lastOp.calls)] = call("notifications", "insert", "error")
    /\ lastOp.n = 2
    /\ Len(notifications) = 1

\* the fixed sequences of §4.3
standardSequence == <<"pending", "confirmed", "processing", "shipped", "delivered">>
customSequence ==
    <<"pending", "under_review", "quoted", "accepted", "payment_made", "completed">>
NextInSequence(seq, from, to) ==
    \E i \in 1..(Len(seq) - 1) : seq[i] = from /\ seq[i + 1] = to

C10_UniqueViolationIsAlreadySent ==
    [][ ( /\ HandlerStep("handleSendInvoice")
          /\ AnyCall(lastOp'.calls, {UniqueViolation.code}) )
        => ( /\ lastOp'.outcome = "already_exists"
             /\ lastOp'.calls = <<call("invoices", "insert", UniqueViolation.code)>>
             /\ UNCHANGED <<status, invoice_sent, notifications, invoices>> ) ]_vars

\* the violation met while the flag is still unset: an earlier send stored
\* the Invoice and then failed to update custom_requests
C10_Witness ==
    /\ lastOp.op = "handleSendInvoice"
    /\ lastOp.outcome = "already_exists"
    /\ lastOp.calls = <<call("invoices", "insert", "23505")>>
    /\ ~invoice_sent
    /\ Len(invoices) = 1

\* the row a successful send adds to invoices, and the owner's notification
lastInvoice == invoices[Len(invoices)]
invoiceNotification == [user_id |-> "owner", type |-> "custom"]

\* C11 (as claimed): when handleSendInvoice ends in success on a custom
\* order with invoice_sent = false and no invoice, the store has exactly one
\* new Invoice with status 'sent', the order's status is 'quoted',
\* invoice_sent is true, and one notification addressed to the owner has
\* been added.
C11_SuccessAddsNotification ==
    [][ ( /\ HandlerStep("handleSendInvoice")
          /\ lastOp'.outcome = "success"
          /\ ~invoice_sent /\ invoices = <<>> )
        => ( /\ Len(invoices') = 1
             /\ invoices'[1].status = "sent"
             /\ invoices'[1].custom_request_id = "order"
             /\ status' = "quoted"
             /\ invoice_sent'
             /\ notifications' = Append(notifications, invoiceNotification) ) ]_vars

\* C11 (amended): when handleSendInvoice ends in success on a custom order
\* with invoice_sent = false and no invoice, the store has exactly one new
\* Invoice with status 'sent', the order's status is 'quoted', invoice_sent
\* is true, and exactly one notification insert addressed to the owner was
\* issued, last: it adds one notification when it succeeds and none when it
\* fails (its result is not looked at).
C11_SuccessIssuesNotification ==
    [][ ( /\ HandlerStep("handleSendInvoice")
          /\ lastOp'.outcome = "success"
          /\ ~invoice_sent /\ invoices = <<>> )
        => LET calls == lastOp'.calls
               last == calls[Len(calls)]
           IN /\ Len(invoices') = 1
              /\ invoices'[1].status = "sent"
              /\ invoices'[1].custom_request_id = "order"
              /\ status' = "quoted"
              /\ invoice_sent'
              /\ last.table = "notifications"
              /\ Cardinality({i \in DOMAIN calls : calls[i].table = "notifications"}) = 1
              /\ notifications' = IF last.result = "ok"
                                  THEN Append(notifications, invoiceNotification)
                                  ELSE notifications ]_vars

\* a send that reported success while its notification insert failed
C11_Witness ==
    /\ lastOp.op = "handleSendInvoice"
    /\ lastOp.outcome = "success"
    /\ lastOp.n = 1
    /\ lastOp.calls[3] = call("notifications", "insert", "error")
    /\ Len(invoices) = 1
    /\ status = "quoted"
    /\ invoice_sent
    /\ notifications = <<>>

times100_Exact(a) == [nearest |-> hundredths(a), ulps |-> 0]

\* C13: whatever positive amount the bridge is given, the amount handed to
\* PaystackPop.setup is exactly amount x 100, in currency NGN.
C13_ProviderGetsAmountTimes100 ==
    handler.state # "none"
        => /\ handler.amount = times100_Exact(amount)
           /\ handler.currency = "NGN"

\* C14: an Invoice is inserted only for a custom order whose status in the
\* store is not completed, cancelled or rejected, also when the invoice
\* form was opened before the status changed.
C14_InvoiceOnlyForOpenCustomOrder ==
    [][ invoices' # invoices
        => /\ isCustomOrder
           /\ status \notin {"completed", "cancelled", "rejected"} ]_vars

\* C15 (as claimed): when the view handleSendInvoice runs on has
\* invoice_sent = true or a non-empty invoices list, the run issues no
\* store call, changes nothing in the store and reports "already sent" /
\* "already exists".
C15_GuardedSendReportsAlreadySent ==
    [][ ( /\ HandlerStep("handleSendInvoice")
          /\ (view[lastOp'.session].invoice_sent \/ view[lastOp'.session].invoices) )
        => ( /\ lastOp'.calls = <<>>
             /\ UNCHANGED <<invoices, status, invoice_sent, notifications>>
             /\ lastOp'.outcome \in {"already_sent", "already_exists"} ) ]_vars

\* C15 (amended): when the view handleSendInvoice runs on has invoice_sent =
\* true or a non-empty invoices list, the run issues no store call and
\* changes nothing in the store; with both form fields filled it reports
\* "already sent" (flag set) or "already exists" (flag unset, list
\* non-empty), and with an empty field it reports "fill in all invoice
\* fields", the check made first.
C15_GuardedSendWritesNothing ==
    [][ ( /\ HandlerStep("handleSendInvoice")
          /\ (view[lastOp'.session].invoice_sent \/ view[lastOp'.session].invoices) )
        => ( /\ lastOp'.calls = <<>>
             /\ UNCHANGED <<invoices, status, invoice_sent, notifications>>
             /\ lastOp'.outcome =
                  IF lastOp'.form.amount = "" \/ lastOp'.form.description = ""
                  THEN "fill_fields"
                  ELSE IF view[lastOp'.session].invoice_sent THEN "already_sent"
                  ELSE "already_exists" ) ]_vars

\* flag and record disagree: the Invoice is stored, the flag is not set, the
\* refreshed view lists the Invoice and the send is turned away by the list
C15_Witness ==
    /\ lastOp.op = "handleSendInvoice"
    /\ lastOp.n = 2
    /\ lastOp.outcome = "already_exists"
    /\ lastOp.calls = <<>>
    /\ ~view[lastOp.session].invoice_sent
    /\ view[lastOp.session].invoices
    /\ ~invoice_sent

\* the three writes of the refund, in the order of handleRefund
refundSequence ==
    << [table |-> "profiles", verb |-> "update"],
       [table |-> "transactions", verb |-> "insert"],
       [table |-> "orders", verb |-> "update_payment_status"] >>

\* C16: the refund writes are issued first and in the order wallet update,
\* transaction insert, payment_status update; each is issued only after the
\* ones before it succeeded; a failed one is the last store call of the run,
\* the run ends in error, and the store holds exactly the effects of the
\* writes that succeeded.
C16_RefundWritesInOrder ==
    [][ HandlerStep("handleStatusUpdate")
        => LET calls == lastOp'.calls
               R == RefundCalls(calls)
               k == Cardinality(R)
               ok(i) == i \in R /\ calls[i].result = "ok"
           IN /\ R = 1..k
              /\ k <= 3
              /\ \A i \in R : /\ calls[i].table = refundSequence[i].table
                              /\ calls[i].verb = refundSequence[i].verb
                              /\ i < k => calls[i].result = "ok"
                              /\ calls[i].result = "error"
                                   => /\ i = Len(calls)
                                      /\ lastOp'.outcome = "error"
              /\ wallet_balance' # wallet_balance => ok(1)
              /\ transactions' = IF ok(2) THEN Append(transactions, refundTransaction)
                                 ELSE transactions
              /\ payment_status' = IF ok(3) THEN "refunded" ELSE payment_status ]_vars

\* the transaction insert failed after the wallet update: nothing further
\* was issued
C16_Witness ==
    /\ lastOp.op = "handleStatusUpdate"
    /\ lastOp.outcome = "error"
    /\ lastOp.calls = << call("profiles", "update", "ok"),
                         call("transactions", "insert", "error") >>
    /\ transactions = <<>>
    /\ payment_status = "paid"
    /\ wallet_balance = InitialWallet + OrderTotal

\* C17: once the store holds a terminal status (delivered or cancelled for
\* a standard order; completed, cancelled or rejected for a custom order),
\* no step changes that status.
C17_TerminalIsAbsorbing ==
    [][ /\ order_status \in {"delivered", "cancelled"}
          => order_status' = order_status
        /\ status \in {"completed", "cancelled", "rejected"}
          => status' = status ]_vars

\* C18: when the status write of handleStatusUpdate fails, the run ends in
\* error, no notification insert is issued and no notification added, the
\* view stays up (no onOrderUpdate / onClose), the status write was issued
\* once (no retry), and the status field is as before.
C18_FailedStatusWrite ==
    [][ ( /\ HandlerStep("handleStatusUpdate")
          /\ \E i \in DOMAIN lastOp'.calls :
                /\ lastOp'.calls[i].verb = "update_status"
                /\ lastOp'.calls[i].result = "error" )
        => LET calls == lastOp'.calls
           IN /\ lastOp'.outcome = "error"
              /\ \A i \in DOMAIN calls : calls[i].table # "notifications"
              /\ notifications' = notifications
              /\ view' = view
              /\ Cardinality({i \in DOMAIN calls : calls[i].verb = "update_status"}) = 1
              /\ calls[Len(calls)].verb = "update_status"
              /\ order_status' = order_status
              /\ status' = status ]_vars

\* the status write failed: the order is as it was and the view is still up
C18_Witness ==
    /\ lastOp.op = "handleStatusUpdate"
    /\ lastOp.outcome = "error"
    /\ lastOp.calls # <<>>
    /\ lastOp.calls[Len(lastOp.calls)].verb = "update_status"
    /\ lastOp.calls[Len(lastOp.calls)].result = "error"
    /\ view[lastOp.session].open
    /\ notifications = <<>>
    /\ currentStatus(view[lastOp.session]) = "pending"

\* C19: no handleStatusUpdate run is made with newStatus equal to the status
\* the view shows (that option is disabled), so no status write, refund or
\* notification is issued for it.
C19_CurrentStatusIsDisabled ==
    [][ HandlerStep("handleStatusUpdate")
        => lastOp'.newStatus # currentStatus(view[lastOp'.session]) ]_vars

\* an admin's view shows the options with the current one disabled, while
\* the store already holds the status that admin then pressed
C19_Witness ==
    /\ lastOp.op = "handleStatusUpdate"
    /\ lastOp.n = 2
    /\ lastOp.outcome = "error"
    /\ StatusManagementShown(lastOp.session)
    /\ ~StatusOptionEnabled(lastOp.session, currentStatus(view[lastOp.session]))
    /\ lastOp.newStatus = IF isCustomOrder THEN status ELSE order_status

\* C20: a status update changes the wallet balance, the transactions or
\* payment_status only when it sets a standard order whose payment_status
\* is 'paid' to 'cancelled'.
C20_RefundOnlyForPaidCancel ==
    [][ ( /\ HandlerStep("handleStatusUpdate")
          /\ ~( /\ ~isCustomOrder
                /\ payment_status = "paid"
                /\ lastOp'.newStatus = "cancelled" ) )
        => UNCHANGED <<wallet_balance, transactions, payment_status>> ]_vars

\* C21: on the initial load with a profile, the loading flag is false only
\* once fetchProducts and fetchSpecialOffers have both finished.
C21_LoadingEndsAfterBothFetches ==
    (home.mounted /\ home.effects = 1 /\ home.profile /\ ~home.loading)
        => /\ home.runs[1].products = "done"
           /\ home.runs[1].offers = "done"

\* the refund part of a status update went through all three of its writes
RefundSucceeded(calls) ==
    \E i \in DOMAIN calls : /\ calls[i].verb = "update_payment_status"
                            /\ calls[i].result = "ok"

\* C22: a refund that succeeds leaves the stored wallet balance exactly the
\* order total above the balance stored just before it, whatever has been
\* written to the balance since the admin's view was loaded.
C22_RefundAddsTotalToStoredBalance ==
    [][ ( /\ HandlerStep("handleStatusUpdate")
          /\ RefundSucceeded(lastOp'.calls) )
        => wallet_balance' = wallet_balance + OrderTotal ]_vars

\* C23: at most one credit transaction referencing the order ever exists,
\* over any sequence of cancel attempts from any sessions.
C23_AtMostOneRefund == Len(transactions) <= 1

\* C24: when handleStatusUpdate makes a standard order whose payment_status
\* is 'paid' cancelled, the wallet update was made and payment_status is
\* 'refunded' afterwards.
C24_PaidOrderCancelledOnlyWithRefund ==
    [][ ( /\ HandlerStep("handleStatusUpdate")
          /\ ~isCustomOrder
          /\ payment_status = "paid"
          /\ order_status # "cancelled"
          /\ order_status' = "cancelled" )
        => ( /\ payment_status' = "refunded"
             /\ \E i \in DOMAIN lastOp'.calls :
                   /\ lastOp'.calls[i].table = "profiles"
                   /\ lastOp'.calls[i].result = "ok" ) ]_vars

\* C25: a provider handler is set up only by a step that finds the latch
\* unset and sets it; while the latch is and stays set, the handler is not
\* replaced (it can only go from set up to open) and the page posts no
\* message (a cancel press posts nothing); the latch is set only while a
\* handler is set up or open.
C25_LatchPreventsDoubleSubmission ==
    /\ [](paymentInProgress => handler.state \in {"setup", "open"})
    /\ [][ /\ attempts' # attempts
              => /\ ~paymentInProgress
                 /\ paymentInProgress'
                 /\ attempts' = attempts + 1
                 /\ handler'.state = "setup"
           /\ (paymentInProgress /\ paymentInProgress')
              => /\ attempts' = attempts
                 /\ handler' # handler
                      => (handler.state = "setup" /\
                          handler' = [handler EXCEPT !.state = "open"])
                 /\ foreign' = foreign => Len(messages') <= Len(messages) ]_vars

\* the auto-trigger set up the one handler; the checkout is open, the latch
\* is set and nothing has been posted
C25_Witness ==
    /\ paymentInProgress
    /\ ~autoTriggerTimer
    /\ dom.payDisabled
    /\ attempts = 1
    /\ handler.state = "open"
    /\ messages = <<>>
    /\ onSuccessCalls + onCancelCalls = 0

\* C26: a custom order with invoice_sent = true has an invoice in the
\* store, and the flag is set only by a handleSendInvoice run whose insert
\* into invoices succeeded and added the row.
C26_FlagOnlyAfterInsert ==
    /\ [](invoice_sent => invoices # <<>>)
    /\ [][ invoice_sent' # invoice_sent
           => /\ invoice_sent'
              /\ HandlerStep("handleSendInvoice")
              /\ Len(lastOp'.calls) >= 2
              /\ lastOp'.calls[1] = call("invoices", "insert", "ok")
              /\ lastOp'.calls[2] = call("custom_requests", "update_status", "ok")
              /\ Len(invoices') = Len(invoices) + 1 ]_vars

\* the flag is set and the invoice is there: the second handler run was a
\* send whose insert and whose custom_requests update both succeeded
C26_Witness ==
    /\ lastOp.op = "handleSendInvoice"
    /\ lastOp.n = 2
    /\ Len(lastOp.calls) >= 2
    /\ lastOp.calls[1] = call("invoices", "insert", "ok")
    /\ lastOp.calls[2].result = "ok"
    /\ invoice_sent
    /\ Len(invoices) = 1

\* a step of handleMessage on the message at the head of the queue
MessageHandled == messages # <<>> /\ messages' = Tail(messages)

\* a step that calls a host callback without taking a message: a WebView
\* onError / onHttpError / onContentProcessDidTerminate
WebViewFailed ==
    /\ messages' = messages
    /\ <<onSuccessCalls, onCancelCalls>>' # <<onSuccessCalls, onCancelCalls>>

\* the 'success' messages come from the provider's callback alone
SuccessPostedByProviderCallback ==
    (Len(messages') > Len(messages) /\ messages'[Len(messages')].type = "success")
        => (handler.state = "open" /\ handler'.state = "closed")

\* C27 (as claimed): onSuccess is called only for a message of type
\* 'success', which only the provider's callback posts; a message of type
\* 'error', an unknown or unparseable message and a WebView error call
\* onCancel and not onSuccess.
C27_OtherMessagesCallOnCancel ==
    [][ /\ SuccessPostedByProviderCallback
        /\ onSuccessCalls' # onSuccessCalls
             => (MessageHandled /\ Head(messages).type = "success")
        /\ ( \/ MessageHandled /\ Head(messages).type
                                     \in {"error", "unknown", "unparseable"}
             \/ WebViewFailed )
             => /\ onCancelCalls' = onCancelCalls + 1
                /\ onSuccessCalls' = onSuccessCalls ]_vars

\* C27 (amended): as above, with 'cancel' among the messages that call
\* onCancel, except that a message of an unknown type calls neither
\* callback.
C27_OnSuccessOnlyForSuccess ==
    [][ /\ SuccessPostedByProviderCallback
        /\ onSuccessCalls' # onSuccessCalls
             => (MessageHandled /\ Head(messages).type = "success")
        /\ ( \/ MessageHandled /\ Head(messages).type
                                     \in {"error", "cancel", "unparseable"}
             \/ WebViewFailed )
             => /\ onCancelCalls' = onCancelCalls + 1
                /\ onSuccessCalls' = onSuccessCalls
        /\ (MessageHandled /\ Head(messages).type = "unknown")
             => UNCHANGED <<onSuccessCalls, onCancelCalls>> ]_vars

\* a message of an unknown type has been taken and no callback was called
C27_Witness ==
    /\ foreign = 1
    /\ messages = <<>>
    /\ attempts = 0
    /\ autoTriggerTimer
    /\ onSuccessCalls = 0
    /\ onCancelCalls = 0

\* C28: a send with an empty amount or description writes nothing, and
\* every invoice persisted has amount > 0 and original_amount > 0.
C28_PersistedAmountsArePositive ==
    [][ /\ ( /\ HandlerStep("handleSendInvoice")
             /\ (lastOp'.form.amount = "" \/ lastOp'.form.description = "") )
           => ( /\ lastOp'.calls = <<>>
                /\ UNCHANGED <<invoices, status, invoice_sent, notifications>> )
        /\ invoices' # invoices
           => ( /\ invoices'[Len(invoices')].amount > 0
                /\ invoices'[Len(invoices')].original_amount > 0 ) ]_vars

\* C29: a view has at most one status update in flight; the updating flag
\* is true exactly while one is; a run starts only from a view whose flag
\* is false (the options are disabled otherwise); and every run that ends,
\* in success or in error, leaves the flag false.
C29_OneStatusUpdateInFlight ==
    /\ [](\A s \in Sessions :
             /\ Len(statusUpdate[s].inFlight) <= 1
             /\ statusUpdate[s].updating <=> statusUpdate[s].inFlight # <<>>)
    /\ [][ \A s \in Sessions :
             /\ statusUpdate'[s].started # statusUpdate[s].started
                  => /\ ~statusUpdate[s].updating
                     /\ statusUpdate'[s].updating
                     /\ \A isCurrent \in BOOLEAN :
                           statusOptionDisabled(statusUpdate'[s].updating, isCurrent)
             /\ Len(statusUpdate'[s].inFlight) < Len(statusUpdate[s].inFlight)
                  => /\ ~statusUpdate'[s].updating
                     /\ statusUpdate'[s].last \in {"success", "error"} ]_vars

\* a view's first update ended in error (a refund write or the status write
\* failed), the flag was reset, and its second update is in flight
C29_Witness ==
    \E s \in Sessions :
        /\ statusUpdate[s].started = 2
        /\ statusUpdate[s].last = "error"
        /\ statusUpdate[s].updating
        /\ Len(statusUpdate[s].inFlight) = 1

\* C30: after an invocation of fetchTransactions the loading flag becomes
\* false at some time, and after a pull-to-refresh the refreshing flag
\* returns to false.
C30_LoadingAndRefreshingEnd ==
    /\ (walletHistory.invocations > 0) ~> ~walletHistory.loading
    /\ walletHistory.refreshing ~> ~walletHistory.refreshing

====
